---- MODULE Spec2Model ----
(***************************************************************************)
(* Bearer-token authentication backend and scope-enforcing middleware of   *)
(* src/mcp/server/auth/middleware/bearer_auth.py.                          *)
(*                                                                         *)
(* A request is taken through BearerAuthBackend.authenticate (suspended    *)
(* once, at the await of provider.load_access_token), the attachment of    *)
(* the outcome to the ASGI scope, and RequireAuthMiddleware.__call__.      *)
(* Strings are sequences of one-character strings, so that startswith and  *)
(* slicing are computed rather than assumed.                               *)
(***************************************************************************)
EXTENDS Integers, Sequences, FiniteSets, TLC

(* ------------------------------ bounds --------------------------------- *)

\* Requests in flight together under SpecConc.
NumRequests == 2

\* The wall clock runs over 0..MaxNow.
MaxNow == 1

\* Tokens the authority holds a record for at the same time.
MaxLive == 1

(* ------------------------- program constants --------------------------- *)

\* auth_header[7:]
PrefixLen == 7

\* HTTPException(status_code=403, ...)
StatusForbidden == 403

\* The literal "Bearer " of auth_header.startswith("Bearer ").
BearerPrefix == <<"B", "e", "a", "r", "e", "r", " ">>

\* detail="Insufficient scope"
InsufficientScope == "Insufficient scope"

(* ----------------------------- inputs ---------------------------------- *)

Requests == 1 .. NumRequests

\* Spec takes one request through the whole pipeline.
SeqRequests == {1}

HBasic == <<"B", "a", "s", "i", "c", " ", "a", "b", "c">>
HLowerCase == <<"b", "e", "a", "r", "e", "r", " ", "x", "y", "z">>
HNoSpace == <<"B", "e", "a", "r", "e", "r">>
HBearerOnly == <<"B", "e", "a", "r", "e", "r", " ">>
HTokA == <<"B", "e", "a", "r", "e", "r", " ", "a">>
HTokB == <<"B", "e", "a", "r", "e", "r", " ", "b">>

TokEmpty == << >>
TokA == <<"a">>
TokB == <<"b">>

\* conn.headers, as far as the Authorization header goes.
NoAuthorization == [present |-> FALSE, value |-> << >>]

Authorization(v) == [present |-> TRUE, value |-> v]

SeqHeaders ==
    {NoAuthorization} \cup
    {Authorization(v) : v \in {HBasic, HLowerCase, HNoSpace, HBearerOnly, HTokA}}

ConcHeaders == {NoAuthorization, Authorization(HTokA), Authorization(HTokB)}

\* Every string load_access_token can be asked about.
Tokens == {TokEmpty, TokA, TokB}

ScopeLists == {<< >>, <<"read">>, <<"read", "write">>}

\* expires_at: << >> is None, <<n>> the integer n.
ExpiresValues == {<< >>} \cup {<<n>> : n \in -1 .. MaxNow + 1}

\* AuthInfo records the authority may hold.
AuthInfos ==
    [client_id : {"u1", "u2"}, scopes : ScopeLists, expires_at : ExpiresValues]

InfoA == [client_id |-> "u1", scopes |-> <<"read">>, expires_at |-> << >>]
InfoB == [client_id |-> "u2", scopes |-> <<"read", "write">>, expires_at |-> << >>]

\* Spec: any record for "a", and one for the empty string.
SeqIssuable == ({TokA} \X AuthInfos) \cup {<<TokEmpty, InfoB>>}

\* SpecConc: "a" belongs to client u1 and "b" to client u2.
ConcIssuable == {<<TokA, InfoA>>, <<TokB, InfoB>>}

\* required_scopes of the RequireAuthMiddleware instances that are set up.
RequiredScopeLists == {<< >>, <<"read">>, <<"write">>, <<"read", "write">>}

ConcRequiredScopeLists == {<<"read">>}

\* What the wrapped app does when it is awaited.
AppOutcomes == {"app_ok", "app_error"}

ConcAppOutcomes == {"app_ok"}

(* ------------------------------ values --------------------------------- *)

NoRecord == [kind |-> "none"]

Record(info) == [kind |-> "record", info |-> info]

Raised == [kind |-> "raise"]

NoReply == [kind |-> "pending"]

\* authenticate has not returned.
Running == [kind |-> "running"]

\* return None
Empty == [kind |-> "none"]

\* An exception left authenticate.
Propagated == [kind |-> "exception"]

NoAuth == [kind |-> "absent"]

NoUser == [kind |-> "absent"]

UnauthenticatedUser == [kind |-> "unauthenticated"]

NoResponse == [kind |-> "none"]

\* The clock has not been read for the request.
NotRead == << >>

(* ----------------------------- state ----------------------------------- *)

VARIABLES
    authority,     \* the provider's records: token -> NoRecord or Record(info)
    now,           \* int(time.time())
    pc,            \* where each request is
    header,        \* each request's Authorization header
    calls,         \* the arguments of each request's load_access_token calls
    reply,         \* what each request's awaited lookup delivers
    afterSuccess,  \* history: the lookup was answered after the same token
                   \* had authenticated another request
    timeRead,      \* the clock when authenticate resumed
    outcome,       \* what authenticate returned
    scope,         \* the request's ASGI scope: "auth" and "user"
    required,      \* required_scopes of the middleware the request reached
    handlerCalls,  \* times self.app was awaited for the request
    appResult,     \* what self.app did
    response       \* the outcome of RequireAuthMiddleware.__call__

vars ==
    <<authority, now, pc, header, calls, reply, afterSuccess, timeRead, outcome, scope,
      required, handlerCalls, appResult, response>>

authVars == <<header, calls, reply, afterSuccess, timeRead, outcome>>

enforceVars == <<required, handlerCalls, appResult, response>>

(* ------------------------ BearerAuthBackend ---------------------------- *)

\* str.startswith
StartsWith(s, prefix) ==
    Len(s) >= Len(prefix) /\ SubSeq(s, 1, Len(prefix)) = prefix

\* s[k:]
SliceFrom(s, k) == SubSeq(s, k + 1, Len(s))

\* Mutant: the prefix is tested without its trailing space.
HasBearer_NoSpace(h) ==
    h.present /\ StartsWith(h.value, SubSeq(BearerPrefix, 1, Len(BearerPrefix) - 1))

\* "Authorization" in conn.headers and auth_header.startswith("Bearer ")
HasBearer(h) == h.present /\ StartsWith(h.value, BearerPrefix)

\* Mutant: the slice starts one character early.
BearerToken_OffByOne(h) == SliceFrom(h.value, PrefixLen - 1)

\* token = auth_header[7:]
BearerToken(h) == SliceFrom(h.value, PrefixLen)

\* Python truth of expires_at: None and 0 are false.
Truthy(e) == e # << >> /\ e[1] # 0

\* Mutant: a token is refused in the very second it expires.
Expired_AtExpiry(info, t) == Truthy(info.expires_at) /\ info.expires_at[1] <= t

\* auth_info.expires_at and auth_info.expires_at < int(time.time())
Expired(info, t) == Truthy(info.expires_at) /\ info.expires_at[1] < t

\* starlette's AuthCredentials(scopes)
AuthCredentials(scopes) == [kind |-> "credentials", scopes |-> scopes]

\* AuthenticatedUser.__init__: SimpleUser(client_id), auth_info, scopes
AuthenticatedUser(info) ==
    [kind |-> "authenticated", username |-> info.client_id,
     auth_info |-> info, scopes |-> info.scopes]

\* return AuthCredentials(auth_info.scopes), AuthenticatedUser(auth_info)
Authenticated(info) ==
    [kind |-> "authenticated", credentials |-> AuthCredentials(info.scopes),
     user |-> AuthenticatedUser(info)]

\* Mutant: the await is wrapped in a try that returns None on any exception.
AfterAwait_Suppress(rep, t) ==
    IF rep.kind = "raise" THEN Empty
    ELSE IF rep.kind = "none" THEN Empty
    ELSE IF Expired(rep.info, t) THEN Empty
    ELSE Authenticated(rep.info)

\* authenticate from the await on: no try around the await, so a raising
\* lookup leaves authenticate as an exception.
AfterAwait(rep, t) ==
    IF rep.kind = "raise" THEN Propagated
    ELSE IF rep.kind = "none" THEN Empty
    ELSE IF Expired(rep.info, t) THEN Empty
    ELSE Authenticated(rep.info)

\* The provider's answer for a token; it holds nothing for other strings.
LoadAccessToken(tok) == IF tok \in Tokens THEN authority[tok] ELSE NoRecord

\* Mutant: a record that authenticated the token before is used again.
Awaited_Cached(r) ==
    LET hits == {q \in Requests \ {r} :
                    calls[q] = calls[r] /\ outcome[q].kind = "authenticated"}
    IN  IF hits # {}
        THEN Record(outcome[CHOOSE q \in hits : TRUE].user.auth_info)
        ELSE reply[r]

\* Mutant: the awaited record is kept in a field of the backend, which the
\* requests share.
Awaited_Shared(r) ==
    LET others == {q \in Requests \ {r} : reply[q].kind = "record"}
    IN  IF others # {} THEN reply[CHOOSE q \in others : TRUE] ELSE reply[r]

\* auth_info = await ...: the value the request's own await delivers.
Awaited(r) == reply[r]

(* ---------------------- RequireAuthMiddleware -------------------------- *)

Range(s) == {s[i] : i \in 1 .. Len(s)}

\* Mutant: only the first required scope is tested.
Denied_FirstOnly(creds, req) ==
    /\ Len(req) > 0
    /\ creds.kind = "absent" \/ req[1] \notin Range(creds.scopes)

\* The loop over self.required_scopes raises at the first scope that fails.
Denied(creds, req) ==
    \E i \in 1 .. Len(req) :
        creds.kind = "absent" \/ req[i] \notin Range(creds.scopes)

Rejection == [kind |-> "http_exception", status |-> StatusForbidden,
              detail |-> InsufficientScope]

PassedThrough(app) == [kind |-> "app", result |-> app]

(* ----------------------------- actions --------------------------------- *)

Init ==
    /\ authority = [t \in Tokens |-> NoRecord]
    /\ now = 0
    /\ pc = [r \in Requests |-> "idle"]
    /\ header = [r \in Requests |-> NoAuthorization]
    /\ calls = [r \in Requests |-> << >>]
    /\ reply = [r \in Requests |-> NoReply]
    /\ afterSuccess = [r \in Requests |-> FALSE]
    /\ timeRead = [r \in Requests |-> NotRead]
    /\ outcome = [r \in Requests |-> Running]
    /\ scope = [r \in Requests |-> [auth |-> NoAuth, user |-> NoUser]]
    /\ required = [r \in Requests |-> << >>]
    /\ handlerCalls = [r \in Requests |-> 0]
    /\ appResult = [r \in Requests |-> "none"]
    /\ response = [r \in Requests |-> NoResponse]

Live == {t \in Tokens : authority[t].kind = "record"}

\* The authority issues a token.
Issue(tok, info) ==
    /\ authority[tok].kind = "none"
    /\ Cardinality(Live) < MaxLive
    /\ authority' = [authority EXCEPT ![tok] = Record(info)]
    /\ UNCHANGED <<now, pc, scope>>
    /\ UNCHANGED authVars
    /\ UNCHANGED enforceVars

\* The authority revokes a token.
Revoke(tok) ==
    /\ authority[tok].kind = "record"
    /\ authority' = [authority EXCEPT ![tok] = NoRecord]
    /\ UNCHANGED <<now, pc, scope>>
    /\ UNCHANGED authVars
    /\ UNCHANGED enforceVars

Tick ==
    /\ now < MaxNow
    /\ now' = now + 1
    /\ UNCHANGED <<authority, pc, scope>>
    /\ UNCHANGED authVars
    /\ UNCHANGED enforceVars

\* A request comes in.
Arrive(r, h) ==
    /\ pc[r] = "idle"
    /\ header' = [header EXCEPT ![r] = h]
    /\ pc' = [pc EXCEPT ![r] = "authenticate"]
    /\ UNCHANGED <<authority, now, calls, reply, afterSuccess, timeRead, outcome, scope>>
    /\ UNCHANGED enforceVars

\* authenticate up to the await: return None, or call load_access_token.
AuthenticateBegin(r) ==
    /\ pc[r] = "authenticate"
    /\ IF HasBearer(header[r])
       THEN /\ calls' = [calls EXCEPT ![r] = Append(@, BearerToken(header[r]))]
            /\ pc' = [pc EXCEPT ![r] = "awaiting"]
            /\ UNCHANGED outcome
       ELSE /\ outcome' = [outcome EXCEPT ![r] = Empty]
            /\ pc' = [pc EXCEPT ![r] = "returned"]
            /\ UNCHANGED calls
    /\ UNCHANGED <<authority, now, header, reply, afterSuccess, timeRead, scope>>
    /\ UNCHANGED enforceVars

\* The provider answers the pending lookup.
LoadAccessTokenReturns(r) ==
    /\ pc[r] = "awaiting"
    /\ reply' = [reply EXCEPT ![r] = LoadAccessToken(calls[r][Len(calls[r])])]
    /\ afterSuccess' = [afterSuccess EXCEPT ![r] =
          \E q \in Requests \ {r} :
              calls[q] = calls[r] /\ outcome[q].kind = "authenticated"]
    /\ pc' = [pc EXCEPT ![r] = "replied"]
    /\ UNCHANGED <<authority, now, header, calls, timeRead, outcome, scope>>
    /\ UNCHANGED enforceVars

\* The provider fails the pending lookup.
LoadAccessTokenRaises(r) ==
    /\ pc[r] = "awaiting"
    /\ reply' = [reply EXCEPT ![r] = Raised]
    /\ pc' = [pc EXCEPT ![r] = "replied"]
    /\ UNCHANGED <<authority, now, header, calls, afterSuccess, timeRead, outcome, scope>>
    /\ UNCHANGED enforceVars

\* authenticate resumes after the await and runs to its return.
AuthenticateResume(r) ==
    /\ pc[r] = "replied"
    /\ outcome' = [outcome EXCEPT ![r] = AfterAwait(Awaited(r), now)]
    /\ timeRead' = [timeRead EXCEPT ![r] = <<now>>]
    /\ pc' = [pc EXCEPT ![r] =
                IF outcome'[r].kind = "exception" THEN "failed" ELSE "returned"]
    /\ UNCHANGED <<authority, now, header, calls, reply, afterSuccess, scope>>
    /\ UNCHANGED enforceVars

\* The request is cancelled while authenticate is suspended at the await:
\* CancelledError is raised there and authenticate returns nothing.
Cancel(r) ==
    /\ pc[r] \in {"awaiting", "replied"}
    /\ pc' = [pc EXCEPT ![r] = "cancelled"]
    /\ UNCHANGED <<authority, now, scope>>
    /\ UNCHANGED authVars
    /\ UNCHANGED enforceVars

\* The outcome of authenticate is put on the request's scope. An empty
\* outcome leaves either no "auth" entry or empty credentials.
Attach(r, anonymous) ==
    /\ pc[r] = "returned"
    /\ scope' = [scope EXCEPT ![r] =
          IF outcome[r].kind = "authenticated"
          THEN [auth |-> outcome[r].credentials, user |-> outcome[r].user]
          ELSE IF anonymous = "empty_credentials"
          THEN [auth |-> AuthCredentials(<< >>), user |-> UnauthenticatedUser]
          ELSE [auth |-> NoAuth, user |-> NoUser]]
    /\ pc' = [pc EXCEPT ![r] = "attached"]
    /\ UNCHANGED <<authority, now>>
    /\ UNCHANGED authVars
    /\ UNCHANGED enforceVars

\* RequireAuthMiddleware.__call__ of an instance with required_scopes = req,
\* around an app that does `app`.
RequireAuth(r, req, app) ==
    /\ pc[r] = "attached"
    /\ required' = [required EXCEPT ![r] = req]
    /\ IF Denied(scope[r].auth, req)
       THEN /\ response' = [response EXCEPT ![r] = Rejection]
            /\ UNCHANGED <<handlerCalls, appResult>>
       ELSE /\ handlerCalls' = [handlerCalls EXCEPT ![r] = @ + 1]
            /\ appResult' = [appResult EXCEPT ![r] = app]
            /\ response' = [response EXCEPT ![r] = PassedThrough(app)]
    /\ pc' = [pc EXCEPT ![r] = "done"]
    /\ UNCHANGED <<authority, now, scope>>
    /\ UNCHANGED authVars

AnonymousModes == {"no_auth_entry", "empty_credentials"}

Next ==
    \/ \E p \in SeqIssuable : Issue(p[1], p[2])
    \/ \E tok \in Tokens : Revoke(tok)
    \/ Tick
    \/ \E r \in SeqRequests, h \in SeqHeaders : Arrive(r, h)
    \/ \E r \in SeqRequests : AuthenticateBegin(r)
    \/ \E r \in SeqRequests : LoadAccessTokenReturns(r)
    \/ \E r \in SeqRequests : LoadAccessTokenRaises(r)
    \/ \E r \in SeqRequests : AuthenticateResume(r)
    \/ \E r \in SeqRequests : Cancel(r)
    \/ \E r \in SeqRequests, m \in AnonymousModes : Attach(r, m)
    \/ \E r \in SeqRequests, req \in RequiredScopeLists, app \in AppOutcomes :
           RequireAuth(r, req, app)

Spec == Init /\ [][Next]_vars

NextConc ==
    \/ \E p \in ConcIssuable : Issue(p[1], p[2])
    \/ \E tok \in Tokens : Revoke(tok)
    \/ \E r \in Requests, h \in ConcHeaders : Arrive(r, h)
    \/ \E r \in Requests : AuthenticateBegin(r)
    \/ \E r \in Requests : LoadAccessTokenReturns(r)
    \/ \E r \in Requests : LoadAccessTokenRaises(r)
    \/ \E r \in Requests : AuthenticateResume(r)
    \/ \E r \in Requests : Cancel(r)
    \/ \E r \in Requests, m \in AnonymousModes : Attach(r, m)
    \/ \E r \in Requests, req \in ConcRequiredScopeLists, app \in ConcAppOutcomes :
           RequireAuth(r, req, app)

SpecConc == Init /\ [][NextConc]_vars

(* ------------------------------ claims --------------------------------- *)

\* authenticate has returned a value for the request.
HasReturned(r) == pc[r] \in {"returned", "attached", "done"}

\* authenticate has come to an end for the request, by return or exception.
HasEnded(r) == HasReturned(r) \/ pc[r] = "failed"

\* Every required scope is among the granted ones.
Covers(granted, req) ==
    \A i \in 1 .. Len(req) : \E j \in 1 .. Len(granted) : granted[j] = req[i]

Forbidden403 ==
    [kind |-> "http_exception", status |-> 403, detail |-> "Insufficient scope"]

\* C1: with credentials on the scope, RequireAuthMiddleware awaits the app
\* exactly once and hands its outcome on when the credentials cover every
\* required scope, and otherwise raises 403 "Insufficient scope" without
\* awaiting the app.
C1_ScopeEnforcer ==
    \A r \in Requests :
        (pc[r] = "done" /\ scope[r].auth.kind = "credentials") =>
            IF Covers(scope[r].auth.scopes, required[r])
            THEN /\ handlerCalls[r] = 1
                 /\ appResult[r] \in AppOutcomes
                 /\ response[r] = [kind |-> "app", result |-> appResult[r]]
            ELSE /\ handlerCalls[r] = 0
                 /\ appResult[r] = "none"
                 /\ response[r] = Forbidden403

C1_Witness ==
    \E r \in Requests :
        /\ pc[r] = "done"
        /\ scope[r].auth = [kind |-> "credentials", scopes |-> <<"read", "write">>]
        /\ required[r] = <<"read", "write">>
        /\ handlerCalls[r] = 1
        /\ response[r] = [kind |-> "app", result |-> "app_error"]

\* C2: with no "auth" entry on the scope, RequireAuthMiddleware raises 403
\* and never awaits the app, whatever required_scopes it was built with, the
\* empty list included.
C2_FailClosed ==
    \A r \in Requests :
        (pc[r] = "done" /\ scope[r].auth.kind = "absent") =>
            handlerCalls[r] = 0 /\ response[r] = Forbidden403

\* C3: a record whose expires_at is an integer (zero included) below the
\* clock read by authenticate gives the empty result.
C3_ExpiredIsEmpty ==
    \A r \in Requests :
        ( /\ HasReturned(r)
          /\ reply[r].kind = "record"
          /\ reply[r].info.expires_at # << >>
          /\ reply[r].info.expires_at[1] < timeRead[r][1] ) =>
            outcome[r] = [kind |-> "none"]

\* C4, as claimed: a lookup that returns no record or raises ends
\* authenticate with the empty result, and no exception leaves authenticate.
C4_LookupFailureIsEmpty ==
    \A r \in Requests :
        (HasEnded(r) /\ reply[r].kind \in {"none", "raise"}) =>
            pc[r] # "failed" /\ outcome[r] = [kind |-> "none"]

\* C4, amended: a lookup that returns no record ends authenticate with the
\* empty result; a lookup that raises is not caught: the exception leaves
\* authenticate, which returns nothing, and nothing is attached to the
\* scope. Either way the lookup was called once.
C4_LookupFailure ==
    \A r \in Requests :
        HasEnded(r) =>
            /\ reply[r].kind = "none" =>
                   HasReturned(r) /\ outcome[r] = [kind |-> "none"] /\ Len(calls[r]) = 1
            /\ reply[r].kind = "raise" =>
                   /\ pc[r] = "failed"
                   /\ outcome[r] = [kind |-> "exception"]
                   /\ Len(calls[r]) = 1
                   /\ scope[r] = [auth |-> [kind |-> "absent"], user |-> [kind |-> "absent"]]

C4_Witness ==
    \E r \in Requests :
        pc[r] = "failed" /\ reply[r].kind = "raise" /\ header[r].value = HTokA

\* The header is missing or does not begin with the seven characters "Bearer ".
LacksBearerPrefix(h) ==
    \/ ~h.present
    \/ Len(h.value) < 7
    \/ \E i \in 1 .. 7 : h.value[i] # <<"B", "e", "a", "r", "e", "r", " ">>[i]

\* C5: without an Authorization header, or with one that does not begin with
\* "Bearer " ("Basic abc", "bearer xyz", "Bearer"), authenticate returns the
\* empty result and raises nothing.
C5_NoBearerIsEmpty ==
    /\ \A v \in {HBasic, HLowerCase, HNoSpace} : LacksBearerPrefix(Authorization(v))
    /\ LacksBearerPrefix(NoAuthorization)
    /\ \A r \in Requests :
           (pc[r] \notin {"idle", "authenticate"} /\ LacksBearerPrefix(header[r])) =>
               HasReturned(r) /\ outcome[r] = [kind |-> "none"]

C5_Witness ==
    \E r \in Requests :
        /\ header[r] = Authorization(HNoSpace)
        /\ pc[r] = "returned"
        /\ outcome[r] = [kind |-> "none"]

\* C6: a "Bearer " request whose token resolves to a record with no
\* expires_at, or with expires_at not below the clock authenticate reads,
\* is authenticated with exactly the record's scopes and client_id.
C6_ValidIsAuthenticated ==
    \A r \in Requests :
        ( /\ HasReturned(r)
          /\ reply[r].kind = "record"
          /\ \/ reply[r].info.expires_at = << >>
             \/ reply[r].info.expires_at[1] >= timeRead[r][1] ) =>
            /\ ~LacksBearerPrefix(header[r])
            /\ outcome[r].kind = "authenticated"
            /\ outcome[r].credentials = [kind |-> "credentials", scopes |-> reply[r].info.scopes]
            /\ outcome[r].user.username = reply[r].info.client_id
            /\ outcome[r].user.scopes = reply[r].info.scopes
            /\ outcome[r].user.auth_info = reply[r].info

C6_Witness ==
    \E r \in Requests :
        /\ pc[r] = "returned"
        /\ timeRead[r] = <<1>>
        /\ reply[r].kind = "record"
        /\ reply[r].info = [client_id |-> "u2", scopes |-> <<"read", "write">>,
                            expires_at |-> <<1>>]
        /\ outcome[r].kind = "authenticated"
        /\ outcome[r].user.username = "u2"

\* One of the four failures: no header, wrong scheme, token unknown to the
\* authority, record expired.
FailureCause(r) ==
    \/ LacksBearerPrefix(header[r])
    \/ reply[r].kind = "none"
    \/ /\ reply[r].kind = "record"
       /\ reply[r].info.expires_at # << >>
       /\ reply[r].info.expires_at[1] < timeRead[r][1]

\* C7: every request that fails authentication for one of the four causes
\* and reaches a RequireAuthMiddleware with a non-empty required_scopes ends
\* the same way: empty result, app not awaited, 403 "Insufficient scope".
C7_FailuresIndistinguishable ==
    \A r \in Requests :
        (pc[r] = "done" /\ required[r] # << >> /\ FailureCause(r)) =>
            /\ outcome[r] = [kind |-> "none"]
            /\ handlerCalls[r] = 0
            /\ response[r] = Forbidden403

\* C9: load_access_token is not called for a request without the "Bearer "
\* prefix and is called exactly once, never again, for a request with it; the
\* argument is the header value without its first seven characters, so the
\* header "Bearer " is looked up as the empty string.
C9_CallDiscipline ==
    \A r \in Requests :
        pc[r] \notin {"idle", "authenticate"} =>
            IF LacksBearerPrefix(header[r])
            THEN calls[r] = << >>
            ELSE /\ Len(calls[r]) = 1
                 /\ Len(calls[r][1]) = Len(header[r].value) - 7
                 /\ \A i \in 1 .. Len(calls[r][1]) :
                        calls[r][1][i] = header[r].value[i + 7]
                 /\ header[r].value = HBearerOnly => calls[r] = << << >> >>

C9_Witness ==
    \E r \in Requests :
        /\ header[r] = Authorization(HBearerOnly)
        /\ calls[r] = << << >> >>
        /\ reply[r].kind = "record"
        /\ pc[r] = "done"

\* C8: authenticate keeps nothing from one request to the next. A lookup
\* that returns no record gives the empty result even after the same token
\* authenticated an earlier request, and two requests with the same header,
\* the same record returned and the same clock get the same outcome.
C8_NoCrossRequestMemory ==
    /\ \A r \in Requests :
           (HasReturned(r) /\ reply[r].kind = "none") => outcome[r] = [kind |-> "none"]
    /\ \A r, q \in Requests :
           ( /\ HasReturned(r) /\ HasReturned(q)
             /\ header[r] = header[q]
             /\ reply[r] = reply[q]
             /\ timeRead[r] = timeRead[q] ) =>
               outcome[r] = outcome[q]

\* A request is refused after the token was revoked, while the same token
\* had authenticated another request before the lookup was answered.
C8_Witness ==
    \E r, q \in Requests :
        /\ r # q
        /\ header[r] = Authorization(HTokA) /\ header[q] = Authorization(HTokA)
        /\ outcome[q].kind = "authenticated"
        /\ afterSuccess[r]
        /\ reply[r].kind = "none"
        /\ pc[r] = "returned"
        /\ outcome[r] = [kind |-> "none"]

\* The client each token of SpecConc was issued to.
OwnerOf(h) == IF h = Authorization(HTokA) THEN "u1" ELSE "u2"

\* C10: a request cancelled while its lookup is pending has nothing attached
\* to its scope, and the identity attached to a request is the one of the
\* record its own lookup returned, for its own token.
C10_CancellationAndIsolation ==
    \A r \in Requests :
        /\ pc[r] = "cancelled" =>
               /\ outcome[r] = [kind |-> "running"]
               /\ scope[r] = [auth |-> [kind |-> "absent"], user |-> [kind |-> "absent"]]
        /\ scope[r].user.kind = "authenticated" =>
               /\ reply[r].kind = "record"
               /\ scope[r].user.auth_info = reply[r].info
               /\ scope[r].user.username = OwnerOf(header[r])
               /\ scope[r].auth = [kind |-> "credentials", scopes |-> reply[r].info.scopes]

\* One request is cancelled with its record already delivered, and another,
\* with a different token, carries the identity of its own token.
C10_Witness ==
    \E r, q \in Requests :
        /\ pc[r] = "cancelled" /\ reply[r].kind = "record"
        /\ header[r] = Authorization(HTokB)
        /\ header[q] = Authorization(HTokA)
        /\ pc[q] = "attached"
        /\ scope[q].user.kind = "authenticated"
        /\ scope[q].user.username = "u1"

====
